---- MODULE Spec2Model ----
(***************************************************************************)
(* Selsa voice assistant (src/app.py): the Flask request path              *)
(* (rate_limit wrapper, chat and vision_analysis handlers) and the         *)
(* browser client embedded in HTML_TEMPLATE (sendMessage, speakText).      *)
(*                                                                         *)
(* Time is counted in ticks, TicksPerSecond ticks to the second, so that   *)
(* "elapsed < 60 / max_per_minute" is the integer comparison               *)
(* elapsed * max_per_minute < 60 * TicksPerSecond.                         *)
(***************************************************************************)
EXTENDS Integers, Sequences, FiniteSets, TLC

\* ------------------------------------------------------------------ bounds
TicksPerSecond == 1
MaxTime == 4
MaxRequests == 3
MaxBodyHist == 1
MaxHist == 12
MaxSends == 3
MaxVoiceSends == 2
MaxFrames == 2
MaxTimers == 2
MaxVizOps == 5

\* ------------------------------------------------------- program constants
MaxTurns == 10

Endpoints == {"chat", "vision"}
Callers == {"A", "B"}
SeqProcs == {1}
ConcProcs == {1, 2}

\* @rate_limit(max_per_minute=30) on chat, @rate_limit(max_per_minute=20) on vision
MaxPerMinute(e) == IF e = "chat" THEN 30 ELSE 20

VARIABLES
    now,          \* the server's clock, time.time(), in ticks
    last_called,  \* per decorated endpoint, the closure's dict user_id -> time
    reqs,         \* per worker, the request it is processing
    log,          \* the wrapper's decisions so far, in the order they were taken
    nreq,         \* the number of requests that have arrived
    gap,          \* the spacing of the calls of a burst, in ticks (0: no burst)
    chatHistory,  \* the client's chatHistory: {role, content} entries
    inputValue,   \* the value of the user-input field
    currentImage, \* whether an image is attached (currentImage is not null)
    sends,        \* per call of sendMessage that went on to fetch: where it is
    nsent,        \* the number of such calls so far
    speakCalls,   \* the calls of speakText, in order
    isListening,  \* the page's isListening flag
    rec,          \* the recognition object: "inactive", "active" or "stopping"
    synth,        \* window.speechSynthesis: its queue, and end events still to come
    viz,          \* the CloudSphereVisualizer: isRunning, frame callbacks, timers
    audioSourceInitialized,  \* whether onload wired the microphone to the analyser
    vizOps        \* the calls made on a visualizer driven on its own

serverVars == <<now, last_called, reqs, log, nreq, gap>>
voiceVars == <<isListening, rec, synth, viz, audioSourceInitialized, vizOps>>
clientVars == <<chatHistory, inputValue, currentImage, sends, nsent, speakCalls, voiceVars>>
vars == <<serverVars, clientVars>>

\* ------------------------------------------------------------ rate_limit
\* elapsed < 60 / max_per_minute
LimitedPerSecond(elapsed, max_per_minute) ==
    elapsed * max_per_minute < TicksPerSecond

LimitedInclusive(elapsed, max_per_minute) ==
    elapsed * max_per_minute <= 60 * TicksPerSecond

Limited(elapsed, max_per_minute) ==
    elapsed * max_per_minute < 60 * TicksPerSecond

\* if user_id in last_called: elapsed = now - last_called[user_id]; if elapsed < ...
Rejects(d, user_id, t, max_per_minute) ==
    /\ user_id \in DOMAIN d
    /\ Limited(t - d[user_id], max_per_minute)

\* the wrapper without line 98
StoreSkipped(lc, e, user_id, t) == lc

\* last_called[user_id] = now, on one endpoint's own dict
StoreShared(lc, e, user_id, t) ==
    [x \in DOMAIN lc |->
        [c \in DOMAIN lc[x] \cup {user_id} |-> IF c = user_id THEN t ELSE lc[x][c]]]

Store(lc, e, user_id, t) ==
    [lc EXCEPT ![e] =
        [c \in DOMAIN lc[e] \cup {user_id} |-> IF c = user_id THEN t ELSE lc[e][c]]]

\* ------------------------------------------------------------- the bodies
Roles == {"user", "assistant"}

\* a history entry without a 'role' key: msg['role'] raises KeyError
BadTurn == [content |-> "x"]

Turn(r, i) == [role |-> r, content |-> i]

\* the histories of at most n turns; the content of a turn is its position
Histories(n) ==
    UNION {{[i \in 1..k |-> Turn(f[i], i)] : f \in [1..k -> Roles]} : k \in 0..n}

MessageKinds == {"absent", "blank", "text", "nonstring"}
ImageKinds == {"absent", "empty", "raw_valid", "url_valid", "garbage", "nonstring"}
Upstream == {"ok", "error", "no_text"}

Body(j, m, h, img) == [json_ok |-> j, message |-> m, history |-> h, image |-> img]

\* a body that is not JSON, or not a JSON object: request.json or data.get raises
InvalidBody == Body(FALSE, "absent", <<>>, "absent")

\* the bodies sent to /api/chat: {message, userId, history, enableSearch}
ChatBodies(n) ==
    {InvalidBody}
    \cup {Body(TRUE, m, <<>>, "absent") : m \in MessageKinds}
    \cup {Body(TRUE, "text", h, "absent") : h \in Histories(n) \cup {<<BadTurn>>}}

\* the bodies sent to /api/vision: {image, prompt, userId}
VisionBodies ==
    {InvalidBody} \cup {Body(TRUE, "absent", <<>>, img) : img \in ImageKinds}

Bodies(e, n) == IF e = "chat" THEN ChatBodies(n) ELSE VisionBodies

\* ---------------------------------------------------------------- chat
Max(a, b) == IF a >= b THEN a ELSE b
Min(a, b) == IF a <= b THEN a ELSE b

\* chat_history[:10]
FirstTurns(h, n) == SubSeq(h, 1, Min(Len(h), n))

\* chat_history[-10:]
LastTurns(h, n) == SubSeq(h, Max(1, Len(h) - n + 1), Len(h))

TurnRaises(msg) == ~({"role", "content"} \subseteq DOMAIN msg)

\* the loop over chat_history[-10:] raises on the first malformed entry
ShapeRaises(h) ==
    \E i \in 1..Len(LastTurns(h, MaxTurns)) : TurnRaises(LastTurns(h, MaxTurns)[i])

\* conversation_parts
ConversationParts(h) ==
    LET tail == LastTurns(h, MaxTurns)
    IN [i \in 1..Len(tail) |->
          [role |-> IF tail[i].role = "user" THEN "user" ELSE "model",
           parts |-> <<[text |-> tail[i].content]>>]]

\* data.get('message', '').strip() is empty
MessageEmpty(m) == m \in {"absent", "blank"}

\* request.json raises, or data.get('message', '').strip() raises
ChatReadRaises(body) == ~body.json_ok \/ body.message = "nonstring"

\* -------------------------------------------------------------- vision
\* not image_data
ImageFalsy(img) == img \in {"absent", "empty"}

\* request.json raises, or ',' in image_data raises
VisionReadRaises(body) == ~body.json_ok \/ body.image = "nonstring"

\* base64.b64decode(image_data) and Image.open(BytesIO(image_bytes)) succeed
DecodeOk(img) == img \in {"raw_valid", "url_valid"}

\* --------------------------------------------------------------- requests
Idle ==
    [pc |-> "idle", ep |-> "none", caller |-> "none", t |-> 0,
     admit |-> "pending", body |-> Body(TRUE, "absent", <<>>, "absent"),
     parts |-> <<>>, shaped |-> FALSE, sent |-> FALSE, upstream |-> "none",
     status |-> 0, nresp |-> 0, fault |-> FALSE]

\* the except clause: a structured JSON error, status 500
OnExceptionUnhandled(r) == [r EXCEPT !.pc = "done", !.fault = TRUE]

OnException(r) ==
    [r EXCEPT !.pc = "done", !.status = 500, !.nresp = @ + 1]

\* return jsonify(...), status
Respond(r, status) ==
    [r EXCEPT !.pc = "done", !.status = status, !.nresp = @ + 1]

\* status is the status of the response where it is noted: 429 at once for a
\* rejected request, 0 until the handler's response is noted for an admitted one
Entry(r, admitted) ==
    [ep |-> r.ep, caller |-> r.caller, t |-> r.t, admitted |-> admitted,
     status |-> IF admitted THEN 0 ELSE 429]

\* the wrapper's return with status 429 (line 96)
RejectFallThrough(r) == [r EXCEPT !.pc = "handler", !.admit = "rejected"]

Reject(r) ==
    [r EXCEPT !.pc = "done", !.status = 429, !.nresp = @ + 1, !.admit = "rejected"]

\* the wrapper's call of f (line 99)
Admit(r) == [r EXCEPT !.pc = "handler", !.admit = "allowed"]

\* One request, from its arrival to the end of the wrapper (lines 89-99), when
\* requests are processed one at a time: the clock is read once, at line 90.
Request(p, e, c) ==
    LET r == [Idle EXCEPT !.ep = e, !.caller = c, !.t = now]
    IN /\ reqs[p].pc = "idle"
       /\ nreq' = nreq + 1
       /\ IF Rejects(last_called[e], c, r.t, MaxPerMinute(e))
          THEN /\ reqs' = [reqs EXCEPT ![p] = Reject(r)]
               /\ log' = Append(log, Entry(r, FALSE))
               /\ last_called' = last_called
          ELSE /\ reqs' = [reqs EXCEPT ![p] = Admit(r)]
               /\ log' = Append(log, Entry(r, TRUE))
               /\ last_called' = Store(last_called, e, c, r.t)
       /\ UNCHANGED <<now, gap, clientVars>>

\* chat(), lines 599-616: read the body, validate, build conversation_parts
ChatBegin(r, body) ==
    LET rb == [r EXCEPT !.body = body]
    IN IF ChatReadRaises(body) THEN OnException(rb)
       ELSE IF MessageEmpty(body.message) THEN Respond(rb, 400)
       ELSE IF ShapeRaises(body.history)
            THEN OnException([rb EXCEPT !.shaped = TRUE])
       ELSE [rb EXCEPT !.shaped = TRUE, !.parts = ConversationParts(body.history),
                       !.pc = "send"]

\* vision_analysis(), lines 647-663: read the body, validate, decode the image
VisionBegin(r, body) ==
    LET rb == [r EXCEPT !.body = body]
    IN IF ~body.json_ok THEN OnException(rb)
       ELSE IF ImageFalsy(body.image) THEN Respond(rb, 400)
       ELSE IF VisionReadRaises(body) \/ ~DecodeOk(body.image) THEN OnException(rb)
       ELSE [rb EXCEPT !.pc = "send"]

HBegin(p, body) ==
    /\ reqs[p].pc = "handler"
    /\ reqs' = [reqs EXCEPT ![p] =
          IF reqs[p].ep = "chat" THEN ChatBegin(reqs[p], body)
                                 ELSE VisionBegin(reqs[p], body)]
    /\ UNCHANGED <<now, last_called, log, nreq, gap, clientVars>>

\* chat.send_message(full_prompt) / vision_model.generate_content(...), response.text
HSend(p, outcome) ==
    /\ reqs[p].pc = "send"
    /\ reqs' = [reqs EXCEPT ![p] =
          LET r == [reqs[p] EXCEPT !.sent = TRUE, !.upstream = outcome]
          IN IF outcome = "ok" THEN Respond(r, 200) ELSE OnException(r)]
    /\ UNCHANGED <<now, last_called, log, nreq, gap, clientVars>>

\* the response is delivered and the worker takes the next request
Finish(p) ==
    /\ reqs[p].pc = "done"
    /\ reqs' = [reqs EXCEPT ![p] = Idle]
    /\ UNCHANGED <<now, last_called, log, nreq, gap, clientVars>>

\* the clock advances
Tick ==
    /\ now < MaxTime
    /\ now' = now + 1
    /\ UNCHANGED <<last_called, reqs, log, nreq, gap, clientVars>>

InitServer(procs) ==
    /\ now = 0
    /\ last_called = [e \in Endpoints |-> <<>>]
    /\ reqs = [p \in procs |-> Idle]
    /\ log = <<>>
    /\ nreq = 0

\* ------------------------------------------------------------- the client
\* A call of sendMessage that has not happened yet.
NoSend ==
    [pc |-> "idle", message |-> FALSE, image |-> FALSE, history |-> <<>>,
     outcome |-> "none",
     voice |-> FALSE,      \* sendMessage was called by recognition.onresult
     bubble |-> "none",    \* what the continuation showed with addMessage
     cleared |-> 0]        \* the calls of clearImage() by this send

\* The visualizer once window.onload has run: constructed, then start()ed once.
\* frames counts the pending frame callbacks, timers the pending timers of stop().
VizLoaded == [isRunning |-> TRUE, frames |-> 1, timers |-> 0]

SynthIdle == [queue |-> <<>>, lateEnds |-> {}]

\* The page as loaded: let chatHistory = []; let currentImage = null; ...
InitPage ==
    /\ chatHistory = <<>>
    /\ inputValue = ""
    /\ currentImage = FALSE
    /\ sends = [s \in 1..MaxSends |-> NoSend]
    /\ nsent = 0
    /\ speakCalls = <<>>
    /\ isListening = FALSE
    /\ rec = "inactive"
    /\ synth = SynthIdle
    /\ viz = VizLoaded
    /\ vizOps = <<>>

\* ----------------------------------------- requests processed one at a time
Init ==
    /\ InitServer(SeqProcs)
    /\ InitPage
    /\ audioSourceInitialized = FALSE
    /\ gap = 0

Next ==
    \/ Tick
    \/ \E p \in DOMAIN reqs, e \in Endpoints, c \in Callers :
          nreq < MaxRequests /\ Request(p, e, c)
    \/ \E p \in DOMAIN reqs :
          /\ reqs[p].pc = "handler"
          /\ \E body \in Bodies(reqs[p].ep, MaxBodyHist) : HBegin(p, body)
    \/ \E p \in DOMAIN reqs, outcome \in Upstream : HSend(p, outcome)
    \/ \E p \in DOMAIN reqs : Finish(p)

Spec == Init /\ [][Next]_vars

SameCaller(a, b) == a.ep = b.ep /\ a.caller = b.caller

\* C1: with requests processed one at a time and non-decreasing timestamps, no
\* two admitted requests of one caller to one endpoint have timestamps less
\* than 60/maxPerMinute seconds apart.
C1_AdmittedSpacing ==
    \A i, j \in 1..Len(log) :
        (i < j /\ log[i].admitted /\ log[j].admitted /\ SameCaller(log[i], log[j]))
            => /\ log[i].t <= log[j].t
               /\ (log[j].t - log[i].t) * MaxPerMinute(log[i].ep) >= 60 * TicksPerSecond

C1_Witness ==
    \E i, j, k \in 1..Len(log) :
        /\ i < j /\ j < k
        /\ SameCaller(log[i], log[j]) /\ SameCaller(log[j], log[k])
        /\ log[i].admitted /\ ~log[j].admitted /\ log[k].admitted
        /\ log[i].ep = "vision"

\* C3: the first call of a caller is Allowed; a later call is Rejected exactly
\* when now - lastAcceptedAt < 60/maxPerMinute; an Allowed call sets
\* lastAcceptedAt to now, a Rejected call (and every other step) leaves it as
\* it was.
C3_AdmitRule ==
    [][\A p \in DOMAIN reqs :
          IF reqs[p].pc = "idle" /\ reqs'[p].pc # "idle"
          THEN LET r == reqs'[p]
                   d == last_called[r.ep]
                   first == r.caller \notin DOMAIN d
               IN /\ r.t = now
                  /\ r.admit \in {"allowed", "rejected"}
                  /\ first => r.admit = "allowed"
                  /\ ~first => (r.admit = "rejected" <=>
                                  (now - d[r.caller]) * MaxPerMinute(r.ep)
                                      < 60 * TicksPerSecond)
                  /\ r.admit = "allowed" =>
                        /\ r.caller \in DOMAIN last_called'[r.ep]
                        /\ last_called'[r.ep][r.caller] = now
                  /\ r.admit = "rejected" =>
                        /\ last_called' = last_called
                        /\ r.status = 429
          ELSE (\A q \in DOMAIN reqs : ~(reqs[q].pc = "idle" /\ reqs'[q].pc # "idle"))
                  => last_called' = last_called
      ]_vars

C3_Witness ==
    \E i, j, k \in 1..Len(log) :
        /\ i < j /\ j < k
        /\ SameCaller(log[i], log[j]) /\ SameCaller(log[j], log[k])
        /\ log[i].admitted /\ ~log[j].admitted /\ log[k].admitted
        /\ log[i].ep = "chat"
        /\ (log[k].t - log[i].t) * MaxPerMinute("chat") = 60 * TicksPerSecond

\* C5: a call of caller c to endpoint e changes neither the stored
\* lastAcceptedAt nor the admission outcome (at any time t) of any other
\* (endpoint, caller) pair.
C5_PairsIndependent ==
    [][\A e \in Endpoints, c \in Callers :
          (\A p \in DOMAIN reqs :
              (reqs[p].pc = "idle" /\ reqs'[p].pc # "idle")
                  => ~(reqs'[p].ep = e /\ reqs'[p].caller = c))
          => /\ (c \in DOMAIN last_called'[e]) <=> (c \in DOMAIN last_called[e])
             /\ c \in DOMAIN last_called[e] => last_called'[e][c] = last_called[e][c]
             /\ \A t \in 0..MaxTime :
                   Rejects(last_called'[e], c, t, MaxPerMinute(e))
                       <=> Rejects(last_called[e], c, t, MaxPerMinute(e))
      ]_vars

C5_Witness ==
    /\ DOMAIN last_called["chat"] = Callers
    /\ "A" \in DOMAIN last_called["vision"]
    /\ last_called["chat"]["A"] > last_called["vision"]["A"]
    /\ last_called["chat"]["A"] > last_called["chat"]["B"]

\* C6: the admission check of a request comes before its history shaping and
\* before its call to the external service; a Rejected request (429) shapes no
\* history and never reaches the external service.
C6_AdmissionFirst ==
    \A p \in DOMAIN reqs :
        LET r == reqs[p]
        IN /\ (r.shaped \/ r.sent) => r.admit = "allowed"
           /\ r.pc \in {"handler", "send"} => r.admit = "allowed"
           /\ (r.sent /\ r.ep = "chat") => r.shaped
           /\ r.admit = "rejected" =>
                 /\ r.pc = "done" /\ r.status = 429
                 /\ ~r.shaped /\ ~r.sent /\ r.parts = <<>>

C6_Witness ==
    \E p \in DOMAIN reqs :
        /\ reqs[p].admit = "rejected" /\ reqs[p].status = 429
        /\ \E i \in 1..Len(log) : log[i].admitted /\ SameCaller(log[i], reqs[p])

CArrive(p, e, c) ==
    /\ reqs[p].pc = "idle"
    /\ nreq < MaxRequests
    /\ nreq' = nreq + 1
    /\ reqs' = [reqs EXCEPT ![p] = [Idle EXCEPT !.pc = "wrapper", !.ep = e, !.caller = c]]
    /\ UNCHANGED <<now, last_called, log, gap, clientVars>>

\* now = time.time(); user_id = ... (lines 90-91)
CTime(p) ==
    /\ reqs[p].pc = "wrapper"
    /\ reqs' = [reqs EXCEPT ![p].t = now, ![p].pc = "check"]
    /\ UNCHANGED <<now, last_called, log, nreq, gap, clientVars>>

\* the test of lines 93-96, a read of last_called
CCheck(p) ==
    LET r == reqs[p]
    IN /\ r.pc = "check"
       /\ IF Rejects(last_called[r.ep], r.caller, r.t, MaxPerMinute(r.ep))
          THEN /\ reqs' = [reqs EXCEPT ![p] = Reject(r)]
               /\ log' = Append(log, Entry(r, FALSE))
          ELSE /\ reqs' = [reqs EXCEPT ![p].pc = "store"]
               /\ log' = log
       /\ UNCHANGED <<now, last_called, nreq, gap, clientVars>>

\* last_called[user_id] = now; return f(*args, **kwargs) (lines 98-99)
CStore(p) ==
    LET r == reqs[p]
    IN /\ r.pc = "store"
       /\ last_called' = Store(last_called, r.ep, r.caller, r.t)
       /\ reqs' = [reqs EXCEPT ![p] = Admit(r)]
       /\ log' = Append(log, Entry(r, TRUE))
       /\ UNCHANGED <<now, nreq, gap, clientVars>>

InitConc ==
    /\ InitServer(ConcProcs)
    /\ InitPage
    /\ audioSourceInitialized = FALSE
    /\ gap = 0

NextConc ==
    \/ Tick
    \/ \E p \in DOMAIN reqs, e \in Endpoints, c \in Callers : CArrive(p, e, c)
    \/ \E p \in DOMAIN reqs : CTime(p)
    \/ \E p \in DOMAIN reqs : CCheck(p)
    \/ \E p \in DOMAIN reqs : CStore(p)
    \/ \E p \in DOMAIN reqs : HBegin(p, Body(TRUE, "text", <<>>, "raw_valid"))
    \/ \E p \in DOMAIN reqs : HSend(p, "ok")
    \/ \E p \in DOMAIN reqs : Finish(p)

SpecConc == InitConc /\ [][NextConc]_vars

\* C2: of two requests of one caller to one endpoint whose wrappers run
\* concurrently with timestamps less than 60/maxPerMinute seconds apart, at
\* most one is admitted.
C2_AtMostOneAdmitted ==
    \A i, j \in 1..Len(log) :
        LET d == IF log[i].t >= log[j].t THEN log[i].t - log[j].t
                                         ELSE log[j].t - log[i].t
        IN (i # j /\ SameCaller(log[i], log[j])
                /\ d * MaxPerMinute(log[i].ep) < 60 * TicksPerSecond)
              => ~(log[i].admitted /\ log[j].admitted)

\* -------------------------------------------------- a burst of chat calls
\* The time of call k of the burst: calls 1..30 are gap ticks apart, from 0.
Due(k) == (k - 1) * gap

BurstCalls == MaxPerMinute("chat") + 1

\* The clock advances to the next call: to its due time for the evenly spaced
\* calls, and anywhere inside the 60 seconds for the last one.
BurstWait ==
    /\ reqs[1].pc = "idle"
    /\ nreq < BurstCalls
    /\ IF nreq + 1 < BurstCalls THEN now < Due(nreq + 1)
                                ELSE now + 1 < 60 * TicksPerSecond
    /\ now' = now + 1
    /\ UNCHANGED <<last_called, reqs, log, nreq, gap, clientVars>>

\* Call nreq + 1 of the burst, by caller A to /api/chat.
BurstCall ==
    /\ nreq < BurstCalls
    /\ nreq + 1 < BurstCalls => now = Due(nreq + 1)
    /\ nreq + 1 = BurstCalls => now >= Due(nreq)
    /\ Request(1, "chat", "A")

InitBurst ==
    /\ InitServer(SeqProcs)
    /\ InitPage
    /\ audioSourceInitialized = FALSE
    /\ gap \in 1..(2 * TicksPerSecond)

NextBurst ==
    \/ BurstWait
    \/ BurstCall
    \/ HBegin(1, Body(TRUE, "text", <<>>, "absent"))
    \/ \E outcome \in Upstream : HSend(1, outcome)
    \/ Finish(1)

SpecBurst == InitBurst /\ [][NextBurst]_vars

\* C4: at 30 per minute, when one caller makes 31 chat calls within 60 seconds
\* and calls 1-30 are 2 seconds apart, calls 1-30 are Allowed and call 31 is
\* Rejected with status 429.
C4_Burst ==
    gap = 2 * TicksPerSecond =>
        /\ \A k \in 1..Len(log) : log[k].admitted <=> k <= 30
        /\ \A k \in 1..Len(log) : k <= 30 => log[k].t = 2 * TicksPerSecond * (k - 1)
        /\ (nreq = 31 /\ reqs[1].pc # "idle") =>
              /\ reqs[1].admit = "rejected" /\ reqs[1].status = 429
              /\ reqs[1].t < 60 * TicksPerSecond

C4_Witness ==
    /\ gap = 2 * TicksPerSecond
    /\ Len(log) = 31 /\ ~log[31].admitted /\ log[30].admitted
    /\ reqs[1].status = 429

\* ------------------------------------------------- one chat request, shaped
InitShape ==
    /\ InitServer(SeqProcs)
    /\ InitPage
    /\ audioSourceInitialized = FALSE
    /\ gap = 0

NextShape ==
    \/ nreq = 0 /\ Request(1, "chat", "A")
    \/ /\ reqs[1].pc = "handler"
       /\ \E h \in Histories(MaxHist) : HBegin(1, Body(TRUE, "text", h, "absent"))
    \/ \E outcome \in Upstream : HSend(1, outcome)
    \/ Finish(1)

SpecShape == InitShape /\ [][NextShape]_vars

\* C7: the context built by the chat handler is the trailing min(10, length)
\* turns of the history in their order, user turns marked "user" and assistant
\* turns "model"; 12 turns yield turns 3-12, and an empty history yields an
\* empty context with which the outward call still proceeds.
C7_TrailingTurns ==
    \A p \in DOMAIN reqs :
        LET r == reqs[p]
            h == r.body.history
            n == Len(h)
            k == IF n < 10 THEN n ELSE 10
        IN /\ (r.pc = "send" \/ r.sent) =>
                 /\ r.shaped
                 /\ Len(r.parts) = k
                 /\ \A i \in 1..k :
                       /\ r.parts[i].role =
                             (CASE h[n - k + i].role = "user" -> "user"
                                [] h[n - k + i].role = "assistant" -> "model")
                       /\ r.parts[i].parts = <<[text |-> h[n - k + i].content]>>
                 /\ n = 12 => \A i \in 1..10 : r.parts[i].parts[1].text = i + 2
                 /\ n = 0 => r.parts = <<>>
           /\ (r.pc = "done" /\ r.ep = "chat" /\ r.body.message = "text") => r.sent

C7_Witness ==
    \E p \in DOMAIN reqs :
        /\ reqs[p].sent /\ Len(reqs[p].body.history) = 12
        /\ Len(reqs[p].parts) = 10
        /\ reqs[p].parts[1].parts[1].text = 3

\* ------------------------------------------------- the client's sendMessage
\* The turns and the speakText calls of send s carry s as their content: the
\* message typed for send s and the reply to it.
UserTurn(s) == [role |-> "user", content |-> s]
AssistantTurn(s) == [role |-> "assistant", content |-> s]

\* speakText(text, isActivation): the call, as the page sees it
SpeakText(calls, s, isActivation) ==
    Append(calls, [send |-> s, activation |-> isActivation])

\* lines 478-486: the reply's data, once response.json() has resolved
HandleDataSpeakAlways(h, calls, s, isError) ==
    IF isError THEN [history |-> h, calls |-> SpeakText(calls, s, FALSE)]
    ELSE [history |-> Append(h, AssistantTurn(s)), calls |-> SpeakText(calls, s, FALSE)]

HandleData(h, calls, s, isError) ==
    IF isError THEN [history |-> h, calls |-> calls]
    ELSE [history |-> Append(h, AssistantTurn(s)), calls |-> SpeakText(calls, s, FALSE)]

\* ---------------------------------------------- the CloudSphereVisualizer
\* start(): if (!this.isRunning) { this.isRunning = true; this.draw(); }, and
\* draw() requests one frame callback.
VStart(v) ==
    IF v.isRunning THEN v
    ELSE [v EXCEPT !.isRunning = TRUE, !.frames = @ + 1]

\* stop(): this.isRunning = false; setTimeout(..., 500)
VStop(v) == [v EXCEPT !.isRunning = FALSE, !.timers = @ + 1]

\* a frame callback runs draw(): it returns at once when the visualizer is
\* stopped, and requests the next frame otherwise
VFrame(v) == [v EXCEPT !.frames = IF v.isRunning THEN @ ELSE @ - 1]

\* the oldest timer of stop() fires; the timers all wait the same 500 ms, so
\* they fire in the order of their stop() calls
VTimer(v) == [v EXCEPT !.timers = @ - 1]

\* line 368: the timer clears the canvas if (!this.isRunning)
TimerClears(v) == ~v.isRunning

\* room for one more frame callback, and for one more timer
CanStart(v) == v.isRunning \/ v.frames < MaxFrames
CanStop(v) == v.timers < MaxTimers

\* ------------------------------------------------ window.speechSynthesis
\* lines 527-536: onstart and onend are attached unless isActivation
HasCallbacksAlways(isActivation) == TRUE

HasCallbacks(isActivation) == ~isActivation

Utterance(s, isActivation) ==
    [send |-> s, activation |-> isActivation,
     callbacks |-> HasCallbacks(isActivation), state |-> "pending"]

\* speechSynthesis.speaking: an utterance is being spoken
Speaking(sy) == \E i \in DOMAIN sy.queue : sy.queue[i].state = "speaking"

\* the utterances that cancel() interrupts while they are spoken
Interrupted(sy) ==
    {sy.queue[i].send : i \in {j \in DOMAIN sy.queue :
          sy.queue[j].state = "speaking" /\ sy.queue[j].callbacks}}

\* Whether the browser delivers an end event to an utterance that cancel()
\* interrupted is the browser's choice (some deliver only an error event).
LateChoices(sy) == IF Interrupted(sy) = {} THEN {FALSE} ELSE BOOLEAN

\* speechSynthesis.cancel(): the queue is emptied
Cancel(sy, late) ==
    [queue |-> <<>>,
     lateEnds |-> IF late THEN sy.lateEnds \cup Interrupted(sy) ELSE sy.lateEnds]

\* speakText without its cancel()
UtterNoCancel(sy, s, isActivation, late) ==
    [sy EXCEPT !.queue = Append(@, Utterance(s, isActivation))]

\* speakText(text, isActivation), lines 517-538: cancel(), then speak()
Utter(sy, s, isActivation, late) ==
    [Cancel(sy, late) EXCEPT !.queue = Append(@, Utterance(s, isActivation))]

\* utterance.onstart, line 529
OnReplyStart(v) == VStart(v)

\* utterance.onend, line 533, without its test of isListening
OnReplyEndAlways(v, listening) == VStop(v)

\* utterance.onend, line 533, with the test inverted
OnReplyEndInverted(v, listening) == IF listening THEN VStop(v) ELSE v

\* utterance.onend, line 533: if (visualizer && !isListening) visualizer.stop()
OnReplyEnd(v, listening) == IF listening THEN v ELSE VStop(v)

\* startListening, line 396
MicOnViz(v, audio, speaking) == IF audio \/ speaking THEN VStart(v) ELSE v

\* stopListening, line 406, without its test of speechSynthesis.speaking
MicOffVizAlways(v, speaking) == VStop(v)

\* stopListening, line 406
MicOffViz(v, speaking) == IF speaking THEN v ELSE VStop(v)

\* the catch clause without its addMessage
OnCatchSilent(send) ==
    [send EXCEPT !.pc = "done",
                 !.outcome = IF send.pc = "fetch" THEN "network" ELSE "parse"]

\* the catch clause, lines 490-493: the connection error is shown
OnCatch(send) ==
    [send EXCEPT !.pc = "done",
                 !.outcome = IF send.pc = "fetch" THEN "network" ELSE "parse",
                 !.bubble = "connection"]

\* ------------------------------------------------------- the page's handlers
\* the user types a message into user-input
TypeText ==
    /\ inputValue = ""
    /\ inputValue' = "text"
    /\ UNCHANGED <<chatHistory, currentImage, sends, nsent, speakCalls, voiceVars, serverVars>>

\* handleImageUpload: reader.onload sets currentImage
AttachImage ==
    /\ ~currentImage
    /\ currentImage' = TRUE
    /\ UNCHANGED <<chatHistory, inputValue, sends, nsent, speakCalls, voiceVars, serverVars>>

\* clearImage(), from the preview's button
ClearImageButton ==
    /\ currentImage
    /\ currentImage' = FALSE
    /\ UNCHANGED <<chatHistory, inputValue, sends, nsent, speakCalls, voiceVars, serverVars>>

\* the body of the chat request, built before the user turn was pushed
CarriedHistoryBefore(before, after, image) == IF image THEN <<>> ELSE before

\* history: chatHistory in the body of the chat request (line 470), built at
\* the call of fetch, after the push of line 442; the vision request carries
\* no history
CarriedHistory(before, after, image) == IF image THEN <<>> ELSE after

\* sendMessage() up to its first await (lines 428-474), with msg the trimmed
\* value of user-input: the unlock call of speakText, the user turn, and the
\* fetch, whose body is built at the call. Without a message and an image it
\* returns at line 432.
Send(msg, voice, late) ==
    LET s == nsent + 1
        message == msg # ""
        h == IF message THEN Append(chatHistory, UserTurn(s)) ELSE chatHistory
    IN /\ nsent < MaxSends
       /\ message \/ currentImage
       /\ speakCalls' = SpeakText(speakCalls, s, TRUE)
       /\ synth' = Utter(synth, s, TRUE, late)
       /\ chatHistory' = h
       /\ inputValue' = ""
       /\ sends' = [sends EXCEPT ![s] =
             [NoSend EXCEPT !.pc = "fetch", !.message = message,
                            !.image = currentImage,
                            !.history = CarriedHistory(chatHistory, h, currentImage),
                            !.voice = voice]]
       /\ nsent' = s
       /\ UNCHANGED <<currentImage, isListening, viz, audioSourceInitialized, vizOps,
                      serverVars>>

\* sendMessage(), from the send button or the Enter key
SendMessage ==
    /\ \E late \in LateChoices(synth) : Send(inputValue, FALSE, late)
    /\ UNCHANGED rec

\* await fetch(...) resolves: the HTTP response has arrived
FetchResolve(s) ==
    /\ sends[s].pc = "fetch"
    /\ sends' = [sends EXCEPT ![s].pc = "json"]
    /\ UNCHANGED <<chatHistory, inputValue, currentImage, nsent, speakCalls, voiceVars, serverVars>>

\* await fetch(...) or await response.json() rejects: the catch clause
AwaitReject(s) ==
    /\ sends[s].pc \in {"fetch", "json"}
    /\ sends' = [sends EXCEPT ![s] = OnCatch(sends[s])]
    /\ UNCHANGED <<chatHistory, inputValue, currentImage, nsent, speakCalls, voiceVars, serverVars>>

\* await response.json() resolves (lines 476-488): the error or the reply,
\* then clearImage()
JsonResolve(s, isError) ==
    LET d == HandleData(chatHistory, speakCalls, s, isError)
    IN /\ sends[s].pc = "json"
       /\ chatHistory' = d.history
       /\ speakCalls' = d.calls
       /\ \E late \in LateChoices(synth) :
             synth' = IF d.calls = speakCalls THEN synth
                      ELSE Utter(synth, s, FALSE, late)
       /\ currentImage' = FALSE
       /\ sends' = [sends EXCEPT ![s].pc = "done",
                                 ![s].outcome = IF isError THEN "error" ELSE "ok",
                                 ![s].bubble = IF isError THEN "error" ELSE "reply",
                                 ![s].cleared = @ + 1]
       /\ UNCHANGED <<inputValue, nsent, isListening, rec, viz, audioSourceInitialized,
                      vizOps, serverVars>>

\* toggleVoice() with the mic off: startListening(). recognition.start()
\* throws InvalidStateError while the recognition has not ended, and the rest
\* of startListening is then skipped.
ToggleMicOn ==
    /\ ~isListening
    /\ CanStart(viz)
    /\ isListening' = TRUE
    /\ IF rec = "inactive"
       THEN /\ rec' = "active"
            /\ viz' = MicOnViz(viz, audioSourceInitialized, Speaking(synth))
       ELSE UNCHANGED <<rec, viz>>
    /\ UNCHANGED <<chatHistory, inputValue, currentImage, sends, nsent, speakCalls,
                   synth, audioSourceInitialized, vizOps, serverVars>>

\* stopListening(), lines 399-407, with recAfter the recognition's state after
\* recognition.stop()
StopListening(recAfter) ==
    /\ CanStop(viz)
    /\ isListening' = FALSE
    /\ rec' = recAfter
    /\ viz' = MicOffViz(viz, Speaking(synth))
    /\ UNCHANGED <<chatHistory, inputValue, currentImage, sends, nsent, speakCalls,
                   synth, audioSourceInitialized, vizOps, serverVars>>

\* toggleVoice() with the mic on: stopListening(). After stop() the
\* recognition still returns a result for the audio it has captured.
ToggleMicOff ==
    /\ isListening
    /\ StopListening(IF rec = "active" THEN "stopping" ELSE rec)

\* recognition.onerror: stopListening(); the recognition has ended
RecError ==
    /\ rec \in {"active", "stopping"}
    /\ StopListening("inactive")

\* recognition.onresult with an interim transcript: nothing is done
RecInterim ==
    /\ rec = "active"
    /\ UNCHANGED vars

\* recognition.onresult with a final transcript (lines 275-278): the
\* transcript is put into user-input and sendMessage() is called. A stopped
\* recognition ends with the result it returns.
RecFinal ==
    /\ rec \in {"active", "stopping"}
    /\ nsent < MaxVoiceSends
    /\ \E late \in LateChoices(synth) : Send("text", TRUE, late)
    /\ rec' = IF rec = "stopping" THEN "inactive" ELSE rec

\* the recognition ends (no onend handler is attached)
RecEnd ==
    /\ rec \in {"active", "stopping"}
    /\ rec' = "inactive"
    /\ UNCHANGED <<chatHistory, inputValue, currentImage, sends, nsent, speakCalls,
                   isListening, synth, viz, audioSourceInitialized, vizOps, serverVars>>

\* the utterance at the head of the queue starts to be spoken
UtterStart ==
    /\ synth.queue # <<>>
    /\ Head(synth.queue).state = "pending"
    /\ CanStart(viz)
    /\ synth' = [synth EXCEPT !.queue[1].state = "speaking"]
    /\ viz' = IF Head(synth.queue).callbacks THEN OnReplyStart(viz) ELSE viz
    /\ UNCHANGED <<chatHistory, inputValue, currentImage, sends, nsent, speakCalls,
                   isListening, rec, audioSourceInitialized, vizOps, serverVars>>

\* the utterance that is spoken ends
UtterEnd ==
    /\ synth.queue # <<>>
    /\ Head(synth.queue).state = "speaking"
    /\ CanStop(viz)
    /\ synth' = [synth EXCEPT !.queue = Tail(@)]
    /\ viz' = IF Head(synth.queue).callbacks THEN OnReplyEnd(viz, isListening) ELSE viz
    /\ UNCHANGED <<chatHistory, inputValue, currentImage, sends, nsent, speakCalls,
                   isListening, rec, audioSourceInitialized, vizOps, serverVars>>

\* the end event of a reply utterance that cancel() interrupted
LateEnd(s) ==
    /\ s \in synth.lateEnds
    /\ CanStop(viz)
    /\ synth' = [synth EXCEPT !.lateEnds = @ \ {s}]
    /\ viz' = OnReplyEnd(viz, isListening)
    /\ UNCHANGED <<chatHistory, inputValue, currentImage, sends, nsent, speakCalls,
                   isListening, rec, audioSourceInitialized, vizOps, serverVars>>

\* a frame callback requested by draw() runs
Frame ==
    /\ viz.frames > 0
    /\ viz' = VFrame(viz)
    /\ UNCHANGED <<chatHistory, inputValue, currentImage, sends, nsent, speakCalls,
                   isListening, rec, synth, audioSourceInitialized, vizOps, serverVars>>

\* the grace period of the oldest stop() is over
TimerFire ==
    /\ viz.timers > 0
    /\ viz' = VTimer(viz)
    /\ UNCHANGED <<chatHistory, inputValue, currentImage, sends, nsent, speakCalls,
                   isListening, rec, synth, audioSourceInitialized, vizOps, serverVars>>

\* ------------------------------------------- a session with keyboard and images
\* The speech and frame events change synth and viz only, which no handler of
\* this session reads: they are left to the session by voice.
InitClient ==
    /\ InitServer(SeqProcs)
    /\ gap = 0
    /\ InitPage
    /\ audioSourceInitialized = FALSE

SpeechEvents ==
    \/ UtterStart
    \/ UtterEnd
    \/ \E s \in 1..MaxSends : LateEnd(s)
    \/ Frame
    \/ TimerFire

NextClient ==
    \/ TypeText
    \/ AttachImage
    \/ ClearImageButton
    \/ SendMessage
    \/ \E s \in 1..MaxSends : FetchResolve(s)
    \/ \E s \in 1..MaxSends : AwaitReject(s)
    \/ \E s \in 1..MaxSends, isError \in BOOLEAN : JsonResolve(s, isError)

SpecClient == InitClient /\ [][NextClient]_vars

\* ----------------------------------------------------- a session by voice
\* window.onload has run: getUserMedia resolved (line 559) or was refused.
InitVoice ==
    /\ InitServer(SeqProcs)
    /\ gap = 0
    /\ InitPage
    /\ audioSourceInitialized \in BOOLEAN

NextVoice ==
    \/ ToggleMicOn
    \/ ToggleMicOff
    \/ RecError
    \/ RecInterim
    \/ RecFinal
    \/ RecEnd
    \/ \E s \in 1..MaxSends : FetchResolve(s)
    \/ \E s \in 1..MaxSends : AwaitReject(s)
    \/ \E s \in 1..MaxSends, isError \in BOOLEAN : JsonResolve(s, isError)
    \/ SpeechEvents

SpecVoice == InitVoice /\ [][NextVoice]_vars

\* --------------------------------------------- the visualizer on its own
\* visualizer.start(), from any of its callers
VizStart ==
    /\ Len(vizOps) < MaxVizOps
    /\ CanStart(viz)
    /\ viz' = VStart(viz)
    /\ vizOps' = Append(vizOps, "start")
    /\ UNCHANGED <<chatHistory, inputValue, currentImage, sends, nsent, speakCalls,
                   isListening, rec, synth, audioSourceInitialized, serverVars>>

\* visualizer.stop(), from any of its callers
VizStop ==
    /\ Len(vizOps) < MaxVizOps
    /\ CanStop(viz)
    /\ viz' = VStop(viz)
    /\ vizOps' = Append(vizOps, "stop")
    /\ UNCHANGED <<chatHistory, inputValue, currentImage, sends, nsent, speakCalls,
                   isListening, rec, synth, audioSourceInitialized, serverVars>>

\* the oldest timer fires, and what it does is noted
VizTimer ==
    /\ Len(vizOps) < MaxVizOps
    /\ viz.timers > 0
    /\ viz' = VTimer(viz)
    /\ vizOps' = Append(vizOps, IF TimerClears(viz) THEN "clear" ELSE "keep")
    /\ UNCHANGED <<chatHistory, inputValue, currentImage, sends, nsent, speakCalls,
                   isListening, rec, synth, audioSourceInitialized, serverVars>>

NextViz == VizStart \/ VizStop \/ Frame \/ VizTimer

SpecViz == InitClient /\ [][NextViz]_vars

Positions(seq, x) == {i \in 1..Len(seq) : seq[i] = x}

\* C9: the user turn of a send is in chatHistory once its request is issued,
\* the assistant turn of a send is there only after that send's reply arrived
\* successfully, and the turns stand in the order in which the sends were
\* issued (user turns among themselves and assistant turns among themselves),
\* also with several sends in flight.
C9_HistoryInSendOrder ==
    /\ \A s \in 1..MaxSends :
          /\ (sends[s].pc # "idle" /\ sends[s].message)
                => Cardinality(Positions(chatHistory, UserTurn(s))) = 1
          /\ Positions(chatHistory, AssistantTurn(s)) # {}
                => (sends[s].pc = "done" /\ sends[s].outcome = "ok")
    /\ \A i, j \in 1..Len(chatHistory) :
          (i < j /\ chatHistory[i].role = chatHistory[j].role)
              => chatHistory[i].content < chatHistory[j].content

\* C9, the part about growth: chatHistory only ever grows by appending.
C9_AppendOnly ==
    [][/\ Len(chatHistory') >= Len(chatHistory)
       /\ SubSeq(chatHistory', 1, Len(chatHistory)) = chatHistory]_vars

\* C10: every successful reply is appended to chatHistory exactly once and
\* passed to speakText in non-unlock mode exactly once, and no reply is
\* appended without being spoken or spoken without being appended.
C10_AppendedAndSpokenOnce ==
    \A s \in 1..MaxSends :
        LET appended == Cardinality(Positions(chatHistory, AssistantTurn(s)))
            spoken == Cardinality(Positions(speakCalls, [send |-> s, activation |-> FALSE]))
            success == sends[s].pc = "done" /\ sends[s].outcome = "ok"
        IN /\ appended = spoken
           /\ success => (appended = 1 /\ spoken = 1)
           /\ ~success => (appended = 0 /\ spoken = 0)

C10_Witness ==
    \E s, u \in 1..MaxSends :
        /\ s # u
        /\ sends[s].outcome = "ok" /\ sends[u].outcome = "error"
        /\ Positions(chatHistory, AssistantTurn(s)) # {}
        /\ Positions(speakCalls, [send |-> s, activation |-> FALSE]) # {}

\* C11: when a send that had an image attached finishes (with a reply, with an
\* error reply, or in the catch clause after a network or parse failure), it
\* has called clearImage() exactly once and currentImage is null.
C11_ImageClearedOnce ==
    [][\A s \in 1..MaxSends :
          (sends[s].pc # "done" /\ sends'[s].pc = "done" /\ sends[s].image)
              => (sends'[s].cleared = 1 /\ ~currentImage')]_vars

\* the head of the synthesis queue starts, or ends, in this step
StartsNow == /\ synth.queue # <<>>
             /\ Head(synth.queue).state = "pending"
             /\ synth'.queue = [synth.queue EXCEPT ![1].state = "speaking"]
EndsNow == /\ synth.queue # <<>>
           /\ Head(synth.queue).state = "speaking"
           /\ synth'.queue = Tail(synth.queue)
           /\ speakCalls' = speakCalls

\* C12: the step of sendMessage that issues the network request of send s
\* (one synchronous run, up to the first await) makes the unlock call of
\* speakText for s; the unlock utterance carries no onstart and no onend, and
\* when it starts or ends the visualizer and chatHistory stay as they are.
C12_UnlockBeforeRequest ==
    [][/\ \A s \in 1..MaxSends :
             (sends[s].pc = "idle" /\ sends'[s].pc = "fetch")
                 => /\ speakCalls' = Append(speakCalls, [send |-> s, activation |-> TRUE])
                    /\ Len(synth'.queue) >= 1
                    /\ synth'.queue[Len(synth'.queue)].send = s
                    /\ synth'.queue[Len(synth'.queue)].activation
       /\ \A i \in DOMAIN synth'.queue :
             synth'.queue[i].activation => ~synth'.queue[i].callbacks
       /\ ((StartsNow \/ EndsNow) /\ Head(synth.queue).activation)
             => (viz' = viz /\ chatHistory' = chatHistory)]_vars

\* the unlock utterance of a send in flight has been spoken to its end while
\* the visualizer was stopped, and the visualizer is still stopped
C12_Witness ==
    \E s \in 1..MaxSends :
        /\ sends[s].pc \in {"fetch", "json"}
        /\ speakCalls = <<[send |-> s, activation |-> TRUE]>>
        /\ synth.queue = <<>>
        /\ ~viz.isRunning
        /\ chatHistory = <<UserTurn(s)>>

\* C13: after two consecutive calls of start(), with no stop() between them,
\* exactly one render loop is active: the visualizer is running with exactly
\* one frame callback pending.
C13_OneLoopAfterTwoStarts ==
    LET n == Len(vizOps)
    IN (n >= 2 /\ vizOps[n] = "start" /\ vizOps[n - 1] = "start")
           => (viz.isRunning /\ viz.frames = 1)

\* C13, the part about the second call: a call of start() that follows a call
\* of start() schedules no frame callback and changes nothing.
C13_SecondStartNoOp ==
    [][(/\ vizOps' = Append(vizOps, "start")
        /\ vizOps # <<>>
        /\ vizOps[Len(vizOps)] = "start") => viz' = viz]_vars

\* C16: a timer of stop() that saw a call of start() between its stop() and its
\* firing performs no clear, also when a further stop() came before it fired.
\* The k-th timer to fire is the timer of the k-th stop().
C16_StartCancelsClear ==
    \A i \in DOMAIN vizOps :
        vizOps[i] = "clear"
            => LET k == Cardinality({j \in 1..i : vizOps[j] \in {"clear", "keep"}})
                   stopAt == CHOOSE j \in 1..i :
                                /\ vizOps[j] = "stop"
                                /\ Cardinality({m \in 1..j : vizOps[m] = "stop"}) = k
               IN \A j \in stopAt..i : vizOps[j] # "start"

C15_OneUtterance ==
    [][/\ Len(synth'.queue) <= 1
       /\ speakCalls' # speakCalls
             => LET c == speakCalls'[Len(speakCalls')]
                IN synth'.queue = <<Utterance(c.send, c.activation)>>]_vars

\* a reply's call of speakText has replaced the utterance of the unlock call
C15_Witness ==
    /\ Len(speakCalls) >= 2
    /\ synth.queue = <<Utterance(speakCalls[Len(speakCalls)].send, FALSE)>>

\* C17: a step that toggles the mic off (stopListening, from toggleVoice or
\* from recognition.onerror) sets isListening to false, leaves the recognition
\* stopped, and stops the visualizer exactly when speechSynthesis.speaking is
\* false at that moment: otherwise the visualizer is left as it is.
C17_MicOff ==
    [][(isListening /\ ~isListening')
          => /\ rec' \in {"stopping", "inactive"}
             /\ viz' = IF Speaking(synth) THEN viz
                       ELSE [viz EXCEPT !.isRunning = FALSE, !.timers = @ + 1]]_vars

\* the mic was toggled off while a reply is being spoken, and the visualizer
\* is still running
C17_Witness ==
    /\ ~isListening /\ rec = "stopping"
    /\ synth.queue # <<>>
    /\ Head(synth.queue).state = "speaking" /\ ~Head(synth.queue).activation
    /\ viz.isRunning
    /\ viz.timers = 0

\* C18: when the end event of a reply utterance is handled (also the end event
\* of a reply that cancel() interrupted), the visualizer is stopped exactly
\* when isListening is false at that moment; with the mic on, the end of
\* synthesis leaves the visualizer as it is.
C18_EndOfReply ==
    [][((EndsNow /\ ~Head(synth.queue).activation)
           \/ (synth'.lateEnds # synth.lateEnds /\ synth'.lateEnds \subseteq synth.lateEnds))
          => viz' = IF isListening THEN viz
                    ELSE [viz EXCEPT !.isRunning = FALSE, !.timers = @ + 1]]_vars

\* a reply has been spoken to its end with the mic on, and the visualizer is
\* running with no stop() pending
C18_Witness ==
    /\ isListening
    /\ \E s \in 1..MaxSends :
          /\ sends[s].pc = "done" /\ sends[s].outcome = "ok"
          /\ speakCalls[Len(speakCalls)] = [send |-> s, activation |-> FALSE]
    /\ synth = SynthIdle
    /\ viz.isRunning /\ viz.timers = 0

\* C19: a send that has failed (the server returned an error body, or the
\* fetch or the parsing of the reply threw) has shown an inline error message,
\* has appended no assistant turn to chatHistory, and has made no call of
\* speakText in non-unlock mode.
C19_FailedSend ==
    \A s \in 1..MaxSends :
        (sends[s].pc = "done" /\ sends[s].outcome \in {"error", "network", "parse"})
            => /\ sends[s].bubble = IF sends[s].outcome = "error" THEN "error"
                                                                  ELSE "connection"
               /\ Positions(chatHistory, AssistantTurn(s)) = {}
               /\ Positions(speakCalls, [send |-> s, activation |-> FALSE]) = {}

\* one send has ended with an error body, one with a network failure and one
\* with a reply that could not be parsed
C19_Witness ==
    \E s, t, u \in 1..MaxSends :
        /\ sends[s].pc = "done" /\ sends[s].outcome = "error"
        /\ sends[t].pc = "done" /\ sends[t].outcome = "network"
        /\ sends[u].pc = "done" /\ sends[u].outcome = "parse"
        /\ sends[s].bubble = "error" /\ sends[t].bubble = "connection"

\* C20: once the mic is toggled off, no transcript event triggers a send or a
\* history append: every step in which recognition.onresult issues a send is
\* taken with isListening true.
C20_NoSendAfterMicOff ==
    [][\A s \in 1..MaxSends :
          (sends[s].pc = "idle" /\ sends'[s].pc = "fetch" /\ sends'[s].voice)
              => isListening]_vars

\* C20, the part about requests in flight: toggling the mic off leaves every
\* send as it is, and its reply is handled later as for any send.
C20_InFlightKept ==
    [][(isListening /\ ~isListening') => sends' = sends]_vars

\* C21: after any interleaving of start(), stop() and frame callbacks, at most
\* one frame callback is pending: there is never more than one render loop.
C21_OneFramePending == viz.frames <= 1

\* C22: whenever a reply (non-unlock) utterance is between its start event and
\* its end event, the visualizer is running.
C22_RunningWhileReplySpoken ==
    \A i \in DOMAIN synth.queue :
        (~synth.queue[i].activation /\ synth.queue[i].state = "speaking")
            => viz.isRunning

\* ------------------------------- requests one at a time, responses noted
\* the response is delivered, its status is noted in the log, and the worker
\* takes the next request
FinishNoted(p) ==
    /\ reqs[p].pc = "done"
    /\ reqs' = [reqs EXCEPT ![p] = Idle]
    /\ log' = [log EXCEPT ![Len(log)].status = reqs[p].status]
    /\ UNCHANGED <<now, last_called, nreq, gap, clientVars>>

\* one caller, on both endpoints
SlotCallers == {"A"}

NextSlot ==
    \/ Tick
    \/ \E p \in DOMAIN reqs, e \in Endpoints, c \in SlotCallers :
          nreq < MaxRequests /\ Request(p, e, c)
    \/ \E p \in DOMAIN reqs :
          /\ reqs[p].pc = "handler"
          /\ \E body \in Bodies(reqs[p].ep, MaxBodyHist) : HBegin(p, body)
    \/ \E p \in DOMAIN reqs, outcome \in Upstream : HSend(p, outcome)
    \/ \E p \in DOMAIN reqs : FinishNoted(p)

SpecSlot == Init /\ [][NextSlot]_vars

\* the next request after log[i] of the same caller to the same endpoint
NextOfCaller(i, j) ==
    /\ i < j /\ SameCaller(log[i], log[j])
    /\ \A k \in (i + 1)..(j - 1) : ~SameCaller(log[i], log[k])

\* C23: an admitted request has the caller's lastAcceptedAt set to its own
\* timestamp from before the handler runs until its response is delivered,
\* whatever the handler answers; after an admitted request answered with 400
\* or 500, the caller's next request to that endpoint within the interval is
\* rejected.
C23_FailedRequestConsumesSlot ==
    /\ \A p \in DOMAIN reqs :
          reqs[p].admit = "allowed"
              => /\ reqs[p].caller \in DOMAIN last_called[reqs[p].ep]
                 /\ last_called[reqs[p].ep][reqs[p].caller] = reqs[p].t
    /\ \A i, j \in 1..Len(log) :
          (/\ NextOfCaller(i, j)
           /\ log[i].admitted /\ log[i].status \in {400, 500}
           /\ Limited(log[j].t - log[i].t, MaxPerMinute(log[i].ep)))
              => (~log[j].admitted /\ log[j].status = 429)

\* an admitted request answered with 400 or 500 was followed, within the
\* interval, by a rejected request of the caller, and later by an admitted one
C23_Witness ==
    \E i, j, k \in 1..Len(log) :
        /\ i < j /\ j < k
        /\ log[i].admitted /\ log[i].status \in {400, 500}
        /\ NextOfCaller(i, j) /\ ~log[j].admitted
        /\ NextOfCaller(j, k) /\ log[k].admitted
        /\ log[k].t > log[i].t

\* C24: the history carried in a chat request issued with a non-empty message
\* ends with the user turn of that message, so the context the server shapes
\* from it (the last ten entries) ends with the current message as a user
\* part.
C24_HistoryEndsWithMessage ==
    \A s \in 1..MaxSends :
        (sends[s].pc # "idle" /\ sends[s].message /\ ~sends[s].image)
            => LET h == sends[s].history
                   cp == ConversationParts(h)
               IN /\ h # <<>>
                  /\ h[Len(h)] = UserTurn(s)
                  /\ cp # <<>>
                  /\ cp[Len(cp)] = [role |-> "user", parts |-> <<[text |-> s]>>]

\* a chat request was issued while an earlier send was in flight and after a
\* reply had been appended: its history holds earlier turns and ends with its
\* own user turn
C24_Witness ==
    \E s, t \in 1..MaxSends :
        /\ t < s
        /\ sends[s].pc = "fetch" /\ sends[s].message /\ ~sends[s].image
        /\ Len(sends[s].history) >= 3
        /\ Positions(sends[s].history, AssistantTurn(t)) # {}
        /\ sends[s].history[Len(sends[s].history)] = UserTurn(s)

====
